---- MODULE Spec2Model ----
(***************************************************************************)
(* Command-line tokenizer and argument extraction of Notepad++             *)
(* (PowerEditor/src/winmain.cpp).                                          *)
(*                                                                         *)
(* A character is a string of length 1; a command line and a token are     *)
(* strings.  The working copy cmdLine that parseCommandLine cuts in place  *)
(* is a sequence of characters in which a zapped position holds NUL.       *)
(* Offsets into the buffer (i, the elements of args) are 0-based as in the *)
(* source; buf[k + 1] is the source's cmdLinePtr[k].                       *)
(***************************************************************************)
EXTENDS Integers, Sequences, FiniteSets, TLC

VARIABLES
    commandLine,              \* the raw command line handed to parseCommandLine
    cmdLine,                  \* the mutable copy that the scan cuts in place
    i,                        \* loop index of the scan
    isBetweenFileNameQuotes,
    isStringInArg,
    isInWhiteSpace,
    zArg,
    shouldBeTerminated,
    args,                     \* start offsets of the tokens found so far
    paramVector,              \* the token sequence (ParamVector)
    pc,                       \* "parseCommandLine" while scanning, then "params"
    regions,                  \* history: the quoted regions the scan has opened
    calls                     \* history: the two most recent calls on paramVector

vars == <<commandLine, cmdLine, i, isBetweenFileNameQuotes, isStringInArg,
          isInWhiteSpace, zArg, shouldBeTerminated, args, paramVector, pc,
          regions, calls>>

scanVars == <<cmdLine, i, isBetweenFileNameQuotes, isStringInArg,
              isInWhiteSpace, zArg, shouldBeTerminated, args>>

-----------------------------------------------------------------------------
(* Characters and strings *)

NUL == "\\0"
QUOTE == "\""
SPACE == " "
TAB == "\t"

\* The characters of a string, as a sequence.
Chars(s) == [k \in 1..Len(s) |-> SubSeq(s, k, k)]

\* The character of string s at 0-based offset k; NUL at and past its end.
CharAt(s, k) == IF k >= 0 /\ k < Len(s) THEN SubSeq(s, k + 1, k + 1) ELSE NUL

lstrlen(s) == Len(s)

\* The C string that starts at 0-based offset off of the buffer: it ends before
\* the first NUL, or at the terminator that follows the buffer.
RECURSIVE CStr(_, _)
CStr(buf, off) ==
    IF off >= Len(buf) \/ buf[off + 1] = NUL
    THEN ""
    ELSE buf[off + 1] \o CStr(buf, off + 1)

-----------------------------------------------------------------------------
(* Bounds and inputs *)

MaxAtoms == 5

Atoms == {"-z", "a", "=", QUOTE, SPACE, TAB}

RECURSIVE StringsOf(_, _)
StringsOf(atoms, n) ==
    IF n = 0 THEN {""}
    ELSE LET shorter == StringsOf(atoms, n - 1)
         IN  shorter \cup {s \o a : s \in shorter, a \in atoms}

\* Command lines in which "-z" is followed by an argument (a word, or a phrase
\* in quotes) and then by further text.
MaxRest == 3

ZCommandLines ==
    {pre \o "-z" \o sep \o x \o " " \o rest :
        pre \in {"", "a "},
        sep \in {" ", "  ", "\t"},
        x \in {"a", "\"a\"", "\"a a\""},
        rest \in StringsOf({"a", SPACE, QUOTE}, MaxRest)}

\* Text directly after a closing quote, and directly before an opening quote.
QuoteExamples == {"\"abc\"def ghi", "abc\"def\""}

ScanCommandLines == StringsOf(Atoms, MaxAtoms) \cup ZCommandLines \cup QuoteExamples

-----------------------------------------------------------------------------
(* parseCommandLine *)

commandLength == lstrlen(commandLine)

InitScanState ==
    /\ cmdLine = Chars(commandLine)
    /\ i = 0
    /\ isBetweenFileNameQuotes = FALSE
    /\ isStringInArg = FALSE
    /\ isInWhiteSpace = TRUE
    /\ zArg = 0
    /\ shouldBeTerminated = FALSE
    /\ args = <<>>
    /\ paramVector = <<>>
    /\ pc = "parseCommandLine"
    /\ regions = <<>>
    /\ calls = <<>>

LoopCond == i < commandLength /\ ~shouldBeTerminated

\* History of the quoted regions: the kind of quoting context ("arg" for
\* isStringInArg, "file" for isBetweenFileNameQuotes), the offset of the quote
\* that opened it and of the quote that closed it (-1 while it is open).
Opened(kind) == Append(regions, [kind |-> kind, open |-> i, close |-> -1])
Closed == [regions EXCEPT ![Len(regions)].close = i]

\* Mutant: the closing quote of a filename is left in the buffer.
CaseQuote_KeepsClosingQuote ==
    /\ pc = "parseCommandLine"
    /\ LoopCond
    /\ cmdLine[i + 1] = QUOTE
    /\ IF ~isStringInArg /\ ~isBetweenFileNameQuotes /\ i > 0 /\ cmdLine[i] = "="
       THEN /\ isStringInArg' = TRUE
            /\ regions' = Opened("arg")
            /\ UNCHANGED <<args, isBetweenFileNameQuotes, cmdLine, zArg>>
       ELSE IF isStringInArg
       THEN /\ isStringInArg' = FALSE
            /\ regions' = Closed
            /\ UNCHANGED <<args, isBetweenFileNameQuotes, cmdLine, zArg>>
       ELSE IF ~isBetweenFileNameQuotes
       THEN /\ args' = Append(args, i + 1)
            /\ isBetweenFileNameQuotes' = TRUE
            /\ cmdLine' = [cmdLine EXCEPT ![i + 1] = NUL]
            /\ zArg' = IF zArg = 1 THEN zArg + 1 ELSE zArg
            /\ regions' = Opened("file")
            /\ UNCHANGED isStringInArg
       ELSE /\ isBetweenFileNameQuotes' = FALSE
            /\ regions' = Closed
            /\ UNCHANGED <<args, isStringInArg, zArg, cmdLine>>
    /\ isInWhiteSpace' = FALSE
    /\ i' = i + 1
    /\ UNCHANGED <<commandLine, shouldBeTerminated, paramVector, pc, calls>>

\* Mutant: the token of a quoted filename starts at the quote, not after it.
CaseQuote_TokenAtQuote ==
    /\ pc = "parseCommandLine"
    /\ LoopCond
    /\ cmdLine[i + 1] = QUOTE
    /\ IF ~isStringInArg /\ ~isBetweenFileNameQuotes /\ i > 0 /\ cmdLine[i] = "="
       THEN /\ isStringInArg' = TRUE
            /\ regions' = Opened("arg")
            /\ UNCHANGED <<args, isBetweenFileNameQuotes, cmdLine, zArg>>
       ELSE IF isStringInArg
       THEN /\ isStringInArg' = FALSE
            /\ regions' = Closed
            /\ UNCHANGED <<args, isBetweenFileNameQuotes, cmdLine, zArg>>
       ELSE IF ~isBetweenFileNameQuotes
       THEN /\ args' = Append(args, i)
            /\ isBetweenFileNameQuotes' = TRUE
            /\ cmdLine' = [cmdLine EXCEPT ![i + 1] = NUL]
            /\ zArg' = IF zArg = 1 THEN zArg + 1 ELSE zArg
            /\ regions' = Opened("file")
            /\ UNCHANGED isStringInArg
       ELSE /\ isBetweenFileNameQuotes' = FALSE
            /\ cmdLine' = [cmdLine EXCEPT ![i + 1] = NUL]
            /\ regions' = Closed
            /\ UNCHANGED <<args, isStringInArg, zArg>>
    /\ isInWhiteSpace' = FALSE
    /\ i' = i + 1
    /\ UNCHANGED <<commandLine, shouldBeTerminated, paramVector, pc, calls>>

\* Mutant: a quote after '=' opens a string in an argument inside a quoted
\* filename too.
CaseQuote_ArgInsideFileName ==
    /\ pc = "parseCommandLine"
    /\ LoopCond
    /\ cmdLine[i + 1] = QUOTE
    /\ IF ~isStringInArg /\ i > 0 /\ cmdLine[i] = "="
       THEN /\ isStringInArg' = TRUE
            /\ regions' = Opened("arg")
            /\ UNCHANGED <<args, isBetweenFileNameQuotes, cmdLine, zArg>>
       ELSE IF isStringInArg
       THEN /\ isStringInArg' = FALSE
            /\ regions' = Closed
            /\ UNCHANGED <<args, isBetweenFileNameQuotes, cmdLine, zArg>>
       ELSE IF ~isBetweenFileNameQuotes
       THEN /\ args' = Append(args, i + 1)
            /\ isBetweenFileNameQuotes' = TRUE
            /\ cmdLine' = [cmdLine EXCEPT ![i + 1] = NUL]
            /\ zArg' = IF zArg = 1 THEN zArg + 1 ELSE zArg
            /\ regions' = Opened("file")
            /\ UNCHANGED isStringInArg
       ELSE /\ isBetweenFileNameQuotes' = FALSE
            /\ cmdLine' = [cmdLine EXCEPT ![i + 1] = NUL]
            /\ regions' = Closed
            /\ UNCHANGED <<args, isStringInArg, zArg>>
    /\ isInWhiteSpace' = FALSE
    /\ i' = i + 1
    /\ UNCHANGED <<commandLine, shouldBeTerminated, paramVector, pc, calls>>

\* Mutant: the quote that opens the argument of -z does not count it.
CaseQuote_ZArgNotCounted ==
    /\ pc = "parseCommandLine"
    /\ LoopCond
    /\ cmdLine[i + 1] = QUOTE
    /\ IF ~isStringInArg /\ ~isBetweenFileNameQuotes /\ i > 0 /\ cmdLine[i] = "="
       THEN /\ isStringInArg' = TRUE
            /\ regions' = Opened("arg")
            /\ UNCHANGED <<args, isBetweenFileNameQuotes, cmdLine, zArg>>
       ELSE IF isStringInArg
       THEN /\ isStringInArg' = FALSE
            /\ regions' = Closed
            /\ UNCHANGED <<args, isBetweenFileNameQuotes, cmdLine, zArg>>
       ELSE IF ~isBetweenFileNameQuotes
       THEN /\ args' = Append(args, i + 1)
            /\ isBetweenFileNameQuotes' = TRUE
            /\ cmdLine' = [cmdLine EXCEPT ![i + 1] = NUL]
            /\ regions' = Opened("file")
            /\ UNCHANGED <<isStringInArg, zArg>>
       ELSE /\ isBetweenFileNameQuotes' = FALSE
            /\ cmdLine' = [cmdLine EXCEPT ![i + 1] = NUL]
            /\ regions' = Closed
            /\ UNCHANGED <<args, isStringInArg, zArg>>
    /\ isInWhiteSpace' = FALSE
    /\ i' = i + 1
    /\ UNCHANGED <<commandLine, shouldBeTerminated, paramVector, pc, calls>>

\* Mutant: after a quote the scan is at a token boundary again, so the text
\* that follows a closing quote starts a token.
CaseQuote_TokenAfterQuote ==
    /\ pc = "parseCommandLine"
    /\ LoopCond
    /\ cmdLine[i + 1] = QUOTE
    /\ IF ~isStringInArg /\ ~isBetweenFileNameQuotes /\ i > 0 /\ cmdLine[i] = "="
       THEN /\ isStringInArg' = TRUE
            /\ regions' = Opened("arg")
            /\ UNCHANGED <<args, isBetweenFileNameQuotes, cmdLine, zArg>>
       ELSE IF isStringInArg
       THEN /\ isStringInArg' = FALSE
            /\ regions' = Closed
            /\ UNCHANGED <<args, isBetweenFileNameQuotes, cmdLine, zArg>>
       ELSE IF ~isBetweenFileNameQuotes
       THEN /\ args' = Append(args, i + 1)
            /\ isBetweenFileNameQuotes' = TRUE
            /\ cmdLine' = [cmdLine EXCEPT ![i + 1] = NUL]
            /\ zArg' = IF zArg = 1 THEN zArg + 1 ELSE zArg
            /\ regions' = Opened("file")
            /\ UNCHANGED isStringInArg
       ELSE /\ isBetweenFileNameQuotes' = FALSE
            /\ cmdLine' = [cmdLine EXCEPT ![i + 1] = NUL]
            /\ regions' = Closed
            /\ UNCHANGED <<args, isStringInArg, zArg>>
    /\ isInWhiteSpace' = isBetweenFileNameQuotes
    /\ i' = i + 1
    /\ UNCHANGED <<commandLine, shouldBeTerminated, paramVector, pc, calls>>

\* case '\"'
CaseQuote ==
    /\ pc = "parseCommandLine"
    /\ LoopCond
    /\ cmdLine[i + 1] = QUOTE
    /\ IF ~isStringInArg /\ ~isBetweenFileNameQuotes /\ i > 0 /\ cmdLine[i] = "="
       THEN /\ isStringInArg' = TRUE
            /\ regions' = Opened("arg")
            /\ UNCHANGED <<args, isBetweenFileNameQuotes, cmdLine, zArg>>
       ELSE IF isStringInArg
       THEN /\ isStringInArg' = FALSE
            /\ regions' = Closed
            /\ UNCHANGED <<args, isBetweenFileNameQuotes, cmdLine, zArg>>
       ELSE IF ~isBetweenFileNameQuotes
       THEN /\ args' = Append(args, i + 1)
            /\ isBetweenFileNameQuotes' = TRUE
            /\ cmdLine' = [cmdLine EXCEPT ![i + 1] = NUL]
            /\ zArg' = IF zArg = 1 THEN zArg + 1 ELSE zArg
            /\ regions' = Opened("file")
            /\ UNCHANGED isStringInArg
       ELSE /\ isBetweenFileNameQuotes' = FALSE
            /\ cmdLine' = [cmdLine EXCEPT ![i + 1] = NUL]
            /\ regions' = Closed
            /\ UNCHANGED <<args, isStringInArg, zArg>>
    /\ isInWhiteSpace' = FALSE
    /\ i' = i + 1
    /\ UNCHANGED <<commandLine, shouldBeTerminated, paramVector, pc, calls>>

\* Mutant: white space is cut inside a quoted filename too.
CaseWhiteSpace_CutsInFileName ==
    /\ pc = "parseCommandLine"
    /\ LoopCond
    /\ cmdLine[i + 1] \in {TAB, SPACE}
    /\ isInWhiteSpace' = TRUE
    /\ IF ~isStringInArg
       THEN /\ cmdLine' = [cmdLine EXCEPT ![i + 1] = NUL]
            /\ LET argsLen == Len(args)
               IN  zArg' = IF argsLen > 0 /\ CStr(cmdLine', args[argsLen]) = "-z"
                           THEN zArg + 1
                           ELSE zArg
       ELSE UNCHANGED <<cmdLine, zArg>>
    /\ i' = i + 1
    /\ UNCHANGED <<commandLine, isBetweenFileNameQuotes, isStringInArg,
                   shouldBeTerminated, args, paramVector, pc, regions, calls>>

\* Mutant: white space is cut inside a string that follows '=' too.
CaseWhiteSpace_CutsInStringInArg ==
    /\ pc = "parseCommandLine"
    /\ LoopCond
    /\ cmdLine[i + 1] \in {TAB, SPACE}
    /\ isInWhiteSpace' = TRUE
    /\ IF ~isBetweenFileNameQuotes
       THEN /\ cmdLine' = [cmdLine EXCEPT ![i + 1] = NUL]
            /\ LET argsLen == Len(args)
               IN  zArg' = IF argsLen > 0 /\ CStr(cmdLine', args[argsLen]) = "-z"
                           THEN zArg + 1
                           ELSE zArg
       ELSE UNCHANGED <<cmdLine, zArg>>
    /\ i' = i + 1
    /\ UNCHANGED <<commandLine, isBetweenFileNameQuotes, isStringInArg,
                   shouldBeTerminated, args, paramVector, pc, regions, calls>>

\* case '\t': case ' '
CaseWhiteSpace ==
    /\ pc = "parseCommandLine"
    /\ LoopCond
    /\ cmdLine[i + 1] \in {TAB, SPACE}
    /\ isInWhiteSpace' = TRUE
    /\ IF ~isBetweenFileNameQuotes /\ ~isStringInArg
       THEN /\ cmdLine' = [cmdLine EXCEPT ![i + 1] = NUL]
            /\ LET argsLen == Len(args)
               IN  zArg' = IF argsLen > 0 /\ CStr(cmdLine', args[argsLen]) = "-z"
                           THEN zArg + 1
                           ELSE zArg
       ELSE UNCHANGED <<cmdLine, zArg>>
    /\ i' = i + 1
    /\ UNCHANGED <<commandLine, isBetweenFileNameQuotes, isStringInArg,
                   shouldBeTerminated, args, paramVector, pc, regions, calls>>

\* Mutant: a token that starts while zArg is 2 does not end the scan.
CaseDefault_NeverTerminated ==
    /\ pc = "parseCommandLine"
    /\ LoopCond
    /\ cmdLine[i + 1] \notin {QUOTE, TAB, SPACE}
    /\ IF ~isBetweenFileNameQuotes /\ ~isStringInArg /\ isInWhiteSpace
       THEN /\ args' = Append(args, i)
            /\ isInWhiteSpace' = FALSE
            /\ UNCHANGED shouldBeTerminated
       ELSE UNCHANGED <<args, shouldBeTerminated, isInWhiteSpace>>
    /\ i' = i + 1
    /\ UNCHANGED <<commandLine, cmdLine, isBetweenFileNameQuotes, isStringInArg,
                   zArg, paramVector, pc, regions, calls>>

\* default
CaseDefault ==
    /\ pc = "parseCommandLine"
    /\ LoopCond
    /\ cmdLine[i + 1] \notin {QUOTE, TAB, SPACE}
    /\ IF ~isBetweenFileNameQuotes /\ ~isStringInArg /\ isInWhiteSpace
       THEN /\ args' = Append(args, i)
            /\ shouldBeTerminated' = IF zArg = 2 THEN TRUE ELSE shouldBeTerminated
            /\ isInWhiteSpace' = FALSE
       ELSE UNCHANGED <<args, shouldBeTerminated, isInWhiteSpace>>
    /\ i' = i + 1
    /\ UNCHANGED <<commandLine, cmdLine, isBetweenFileNameQuotes, isStringInArg,
                   zArg, paramVector, pc, regions, calls>>

\* The loop has ended: paramVector.assign(args.begin(), args.end())
AssignParams ==
    /\ pc = "parseCommandLine"
    /\ ~LoopCond
    /\ paramVector' = [k \in 1..Len(args) |-> CStr(cmdLine, args[k])]
    /\ pc' = "params"
    /\ UNCHANGED <<commandLine, scanVars, regions, calls>>

NextScan == CaseQuote \/ CaseWhiteSpace \/ CaseDefault \/ AssignParams

\* The command line is a string; for a null pointer parseCommandLine returns at
\* once and leaves paramVector as it was, which no property below is about.
InitScan ==
    /\ commandLine \in ScanCommandLines
    /\ InitScanState

SpecScan == InitScan /\ [][NextScan]_vars

\* The loop is a plain for loop: it is never suspended.
SpecScanFair == SpecScan /\ WF_vars(NextScan)

-----------------------------------------------------------------------------
(* Extraction from the token sequence *)

MaxParams == 3

\* Tokens of the sequences that the extraction functions are applied to.
ParamTokens == {"-lcpp", "-l", "-", "-multiInst", "-n12", "a"}

RECURSIVE SeqsUpTo(_, _)
SeqsUpTo(S, n) ==
    IF n = 0 THEN {<<>>}
    ELSE LET shorter == SeqsUpTo(S, n - 1)
         IN  shorter \cup {Append(q, t) : q \in shorter, t \in S}

ParamVectors == SeqsUpTo(ParamTokens, MaxParams)

\* Arguments the callers pass.
LiteralArgs == {"-multiInst"}
FlagChars == {"l", "n"}
PrefixArgs == {"-settingsDir=", "-l"}

\* params.erase(params.begin() + (it - 1))
Erase(params, it) ==
    [k \in 1..(Len(params) - 1) |-> IF k < it THEN params[k] ELSE params[k + 1]]

\* The position (1-based) at which a loop from the front returns, given the
\* positions whose token passes the loop's test; 0 when it reaches params.end().
FirstMatch(hits) ==
    IF hits = {} THEN 0 ELSE CHOOSE k \in hits : \A j \in hits : k <= j

isInList(token2Find, params, eraseArg) ==
    LET it == FirstMatch({k \in 1..Len(params) : params[k] = token2Find})
    IN  IF it # 0
        THEN [ret |-> TRUE, params |-> IF eraseArg THEN Erase(params, it) ELSE params]
        ELSE [ret |-> FALSE, params |-> params]

\* Mutant: the last matching token is taken, not the first.
getParamVal_ErasesLastMatch(c, params) ==
    LET hits == {k \in 1..Len(params) :
                    /\ CharAt(params[k], 0) = "-"
                    /\ lstrlen(params[k]) >= 2
                    /\ CharAt(params[k], 1) = c}
        it == IF hits = {} THEN 0 ELSE CHOOSE k \in hits : \A j \in hits : j <= k
    IN  IF it # 0
        THEN [ret |-> TRUE,
              value |-> SubSeq(params[it], 3, Len(params[it])),
              params |-> Erase(params, it)]
        ELSE [ret |-> FALSE, value |-> "", params |-> params]

\* Mutant: the value starts after the dash only (token + 1).
getParamVal_KeepsFlagChar(c, params) ==
    LET it == FirstMatch({k \in 1..Len(params) :
                             /\ CharAt(params[k], 0) = "-"
                             /\ lstrlen(params[k]) >= 2
                             /\ CharAt(params[k], 1) = c})
    IN  IF it # 0
        THEN [ret |-> TRUE,
              value |-> SubSeq(params[it], 2, Len(params[it])),
              params |-> Erase(params, it)]
        ELSE [ret |-> FALSE, value |-> "", params |-> params]

getParamVal(c, params) ==
    LET it == FirstMatch({k \in 1..Len(params) :
                             /\ CharAt(params[k], 0) = "-"
                             /\ lstrlen(params[k]) >= 2
                             /\ CharAt(params[k], 1) = c})
    IN  IF it # 0
        THEN [ret |-> TRUE,
              value |-> SubSeq(params[it], 3, Len(params[it])),
              params |-> Erase(params, it)]
        ELSE [ret |-> FALSE, value |-> "", params |-> params]

\* tokenStr.find(str): the first position of str in tokenStr, npos (-1) if none
find(tokenStr, str) ==
    LET at == {p \in 0..(Len(tokenStr) - Len(str)) :
                   SubSeq(tokenStr, p + 1, p + Len(str)) = str}
    IN  IF at = {} THEN -1 ELSE CHOOSE p \in at : \A q \in at : p <= q

\* Mutant: the matched token is not erased.
getParamValFromString_KeepsToken(str, params) ==
    LET it == FirstMatch({k \in 1..Len(params) : find(params[k], str) = 0})
    IN  IF it # 0
        THEN [ret |-> TRUE,
              value |-> SubSeq(params[it], lstrlen(str) + 1, Len(params[it])),
              params |-> params]
        ELSE [ret |-> FALSE, value |-> "", params |-> params]

getParamValFromString(str, params) ==
    LET it == FirstMatch({k \in 1..Len(params) : find(params[k], str) = 0})
    IN  IF it # 0
        THEN [ret |-> TRUE,
              value |-> SubSeq(params[it], lstrlen(str) + 1, Len(params[it])),
              params |-> Erase(params, it)]
        ELSE [ret |-> FALSE, value |-> "", params |-> params]

\* _ttoi64: skips leading white space, takes an optional sign and the leading
\* decimal digits; 0 when there are none.
Digits == <<"0", "1", "2", "3", "4", "5", "6", "7", "8", "9">>
IsDigit(ch) == \E d \in 1..10 : Digits[d] = ch
DigitVal(ch) == (CHOOSE d \in 1..10 : Digits[d] = ch) - 1

RECURSIVE DigitsValue(_, _, _)
DigitsValue(s, k, acc) ==
    IF IsDigit(CharAt(s, k))
    THEN DigitsValue(s, k + 1, acc * 10 + DigitVal(CharAt(s, k)))
    ELSE acc

RECURSIVE SkipSpace(_, _)
SkipSpace(s, k) == IF CharAt(s, k) \in {SPACE, TAB} THEN SkipSpace(s, k + 1) ELSE k

ttoi64(s) ==
    LET k == SkipSpace(s, 0)
    IN  IF CharAt(s, k) = "-" THEN 0 - DigitsValue(s, k + 1, 0)
        ELSE IF CharAt(s, k) = "+" THEN DigitsValue(s, k + 1, 0)
        ELSE DigitsValue(s, k, 0)

\* Mutant: isParamePresent is set whether or not the parameter was found.
getNumberFromParam_AlwaysPresent(paramName, params) ==
    LET r == getParamVal(paramName, params)
    IN  IF ~r.ret
        THEN [ret |-> -1, isParamePresent |-> TRUE, params |-> r.params]
        ELSE [ret |-> ttoi64(r.value), isParamePresent |-> TRUE, params |-> r.params]

getNumberFromParam(paramName, params) ==
    LET r == getParamVal(paramName, params)
    IN  IF ~r.ret
        THEN [ret |-> -1, isParamePresent |-> FALSE, params |-> r.params]
        ELSE [ret |-> ttoi64(r.value), isParamePresent |-> TRUE, params |-> r.params]

\* What a call did: its name and arguments, the sequence it was given, what it
\* returned (found: the bool result or isParamePresent; value: the string
\* result; number: the integer result) and the sequence it left.
Call(op, arg, eraseArg, found, value, number, after) ==
    [op |-> op, arg |-> arg, eraseArg |-> eraseArg, before |-> paramVector,
     found |-> found, value |-> value, number |-> number, after |-> after]

\* calls keeps the two most recent calls.
Record(c) ==
    calls' = IF Len(calls) < 2 THEN Append(calls, c) ELSE <<calls[2], c>>

Do_isInList ==
    /\ pc = "params"
    /\ \E token2Find \in LiteralArgs, eraseArg \in BOOLEAN :
          LET r == isInList(token2Find, paramVector, eraseArg)
          IN  /\ paramVector' = r.params
              /\ Record(Call("isInList", token2Find, eraseArg, r.ret, "", 0, r.params))
    /\ UNCHANGED <<commandLine, scanVars, pc, regions>>

Do_getParamVal ==
    /\ pc = "params"
    /\ \E c \in FlagChars :
          LET r == getParamVal(c, paramVector)
          IN  /\ paramVector' = r.params
              /\ Record(Call("getParamVal", c, TRUE, r.ret, r.value, 0, r.params))
    /\ UNCHANGED <<commandLine, scanVars, pc, regions>>

Do_getParamValFromString ==
    /\ pc = "params"
    /\ \E str \in PrefixArgs :
          LET r == getParamValFromString(str, paramVector)
          IN  /\ paramVector' = r.params
              /\ Record(Call("getParamValFromString", str, TRUE, r.ret, r.value, 0, r.params))
    /\ UNCHANGED <<commandLine, scanVars, pc, regions>>

Do_getNumberFromParam ==
    /\ pc = "params"
    /\ \E paramName \in FlagChars :
          LET r == getNumberFromParam(paramName, paramVector)
          IN  /\ paramVector' = r.params
              /\ Record(Call("getNumberFromParam", paramName, TRUE, r.isParamePresent,
                             "", r.ret, r.params))
    /\ UNCHANGED <<commandLine, scanVars, pc, regions>>

NextParams ==
    \/ Do_isInList
    \/ Do_getParamVal
    \/ Do_getParamValFromString
    \/ Do_getNumberFromParam

\* The extraction functions applied to an arbitrary token sequence.
InitParams ==
    /\ commandLine = ""
    /\ cmdLine = <<>>
    /\ i = 0
    /\ isBetweenFileNameQuotes = FALSE
    /\ isStringInArg = FALSE
    /\ isInWhiteSpace = TRUE
    /\ zArg = 0
    /\ shouldBeTerminated = FALSE
    /\ args = <<>>
    /\ paramVector \in ParamVectors
    /\ pc = "params"
    /\ regions = <<>>
    /\ calls = <<>>

SpecParams == InitParams /\ [][NextParams]_vars

-----------------------------------------------------------------------------
(* Functions built on the extraction functions, and the two rewriting passes *)

\* Tokens of the sequences these functions are applied to: typing speeds,
\* quote-style arguments, and the legacy and ignore markers.
SpeedTokens == {"-qSpeed", "-qSpeedx", "-qSpeed0", "-qSpeed-1", "-qSpeed2", "-qSpeed5"}
QuoteTokens == {"-qn=a", "-qt=\"b c\"", "-qf=c", "a"}
LegacyTokens == {"/p", "/P", "/pa", "-z", "a"}

\* The token sequence of the documented quick-print command line.
QuickPrintParams == <<"/p", "report.txt">>

DerivedVectors ==
    SeqsUpTo(SpeedTokens, MaxParams) \cup SeqsUpTo(QuoteTokens, MaxParams)
        \cup SeqsUpTo(LegacyTokens, MaxParams)
        \cup {QuickPrintParams}

\* relativeFilePathToFullFilePath is defined outside this file: the path made
\* absolute against the current directory.
relativeFilePathToFullFilePath(path) == "<cwd>\\" \o path

\* A variant that looks for the three forms in the opposite order.
getEasterEggNameFromParam_FileFirst(params, type) ==
    LET qn == getParamValFromString("-qn=", params)
        qt == getParamValFromString("-qt=", params)
        qf == getParamValFromString("-qf=", params)
        r == IF qf.ret THEN qf ELSE IF qt.ret THEN qt ELSE qn
        t == IF qf.ret THEN 2 ELSE IF qt.ret THEN 1 ELSE 0
        n == r.value
        unquoted == IF CharAt(n, 0) = QUOTE /\ CharAt(n, Len(n) - 1) = QUOTE
                    THEN IF Len(n) >= 2 THEN SubSeq(n, 2, Len(n) - 1) ELSE ""
                    ELSE n
    IN  IF ~r.ret
        THEN [ret |-> "", type |-> type, params |-> r.params]
        ELSE [ret |-> IF t = 2 THEN relativeFilePathToFullFilePath(unquoted)
                      ELSE unquoted,
              type |-> t, params |-> r.params]

getEasterEggNameFromParam(params, type) ==
    LET qn == getParamValFromString("-qn=", params)
        qt == getParamValFromString("-qt=", params)
        qf == getParamValFromString("-qf=", params)
        r == IF qn.ret THEN qn ELSE IF qt.ret THEN qt ELSE qf
        t == IF qn.ret THEN 0 ELSE IF qt.ret THEN 1 ELSE 2
        n == r.value
        unquoted == IF CharAt(n, 0) = QUOTE /\ CharAt(n, Len(n) - 1) = QUOTE
                    THEN IF Len(n) >= 2 THEN SubSeq(n, 2, Len(n) - 1) ELSE ""
                    ELSE n
    IN  IF ~r.ret
        THEN [ret |-> "", type |-> type, params |-> r.params]
        ELSE [ret |-> IF t = 2 THEN relativeFilePathToFullFilePath(unquoted)
                      ELSE unquoted,
              type |-> t, params |-> r.params]

\* std::stoi(str, 0): skips leading white space, takes an optional sign and
\* the leading decimal digits; throws std::invalid_argument when there is no
\* digit and std::out_of_range when the value does not fit an int.
stoi(str) ==
    LET k == SkipSpace(str, 0)
        signed == CharAt(str, k) \in {"-", "+"}
        d == IF signed THEN k + 1 ELSE k
        v == IF CharAt(str, k) = "-" THEN 0 - DigitsValue(str, d, 0)
             ELSE DigitsValue(str, d, 0)
    IN  IF ~IsDigit(CharAt(str, d))
        THEN [exception |-> "std::invalid_argument", value |-> 0]
        ELSE IF v > 2147483647 \/ v < 0 - 2147483647 - 1
        THEN [exception |-> "std::out_of_range", value |-> 0]
        ELSE [exception |-> "", value |-> v]

getGhostTypingSpeedFromParam(params) ==
    LET r == getParamValFromString("-qSpeed", params)
        speed == stoi(r.value)
    IN  IF ~r.ret
        THEN [ret |-> -1, exception |-> "", params |-> r.params]
        ELSE IF speed.exception # ""
        THEN [ret |-> 0, exception |-> speed.exception, params |-> r.params]
        ELSE IF speed.value <= 0 \/ speed.value > 3
        THEN [ret |-> -1, exception |-> "", params |-> r.params]
        ELSE [ret |-> speed.value, exception |-> "", params |-> r.params]

\* A variant that knows the lower-case spelling only.
convertParamsToNotepadStyle_LowerCaseOnly(params) ==
    [k \in 1..Len(params) |->
        IF params[k] = "/p" THEN "-quickPrint" ELSE params[k]]

convertParamsToNotepadStyle(params) ==
    [k \in 1..Len(params) |->
        IF params[k] = "/p" \/ params[k] = "/P" THEN "-quickPrint" ELSE params[k]]

\* A variant of the loop that erases the -z but not the token after it.
RECURSIVE stripLoop_KeepsNext(_, _)
stripLoop_KeepsNext(params, it) ==
    IF it > Len(params)
    THEN params
    ELSE IF params[it] = "-z"
    THEN stripLoop_KeepsNext(Erase(params, it), it)
    ELSE stripLoop_KeepsNext(params, it + 1)

\* The loop of stripIgnoredParams with its iterator at position it (1-based).
RECURSIVE stripLoop(_, _)
stripLoop(params, it) ==
    IF it > Len(params)
    THEN params
    ELSE IF params[it] = "-z"
    THEN LET nextIt == it + 1
             erased == IF nextIt <= Len(params) THEN Erase(params, nextIt) ELSE params
         IN  stripLoop(Erase(erased, it), it)
    ELSE stripLoop(params, it + 1)

stripIgnoredParams(params) == stripLoop(params, 1)

Do_getEasterEggNameFromParam ==
    /\ pc = "params"
    /\ \E type \in 0..2 :
          LET r == getEasterEggNameFromParam(paramVector, type)
          IN  /\ paramVector' = r.params
              /\ Record(Call("getEasterEggNameFromParam", Digits[type + 1], TRUE,
                             r.params # paramVector, r.ret, r.type, r.params))
    /\ UNCHANGED <<commandLine, scanVars, pc, regions>>

\* An exception of std::stoi is not caught in this file: the call does not
\* return and pc becomes "exception".
Do_getGhostTypingSpeedFromParam ==
    /\ pc = "params"
    /\ LET r == getGhostTypingSpeedFromParam(paramVector)
       IN  /\ paramVector' = r.params
           /\ pc' = IF r.exception # "" THEN "exception" ELSE pc
           /\ Record(Call("getGhostTypingSpeedFromParam", "-qSpeed", TRUE,
                          r.params # paramVector, r.exception, r.ret, r.params))
    /\ UNCHANGED <<commandLine, scanVars, regions>>

Do_convertParamsToNotepadStyle ==
    /\ pc = "params"
    /\ LET r == convertParamsToNotepadStyle(paramVector)
       IN  /\ paramVector' = r
           /\ Record(Call("convertParamsToNotepadStyle", "", FALSE, r # paramVector,
                          "", 0, r))
    /\ UNCHANGED <<commandLine, scanVars, pc, regions>>

Do_stripIgnoredParams ==
    /\ pc = "params"
    /\ LET r == stripIgnoredParams(paramVector)
       IN  /\ paramVector' = r
           /\ Record(Call("stripIgnoredParams", "", TRUE, r # paramVector, "", 0, r))
    /\ UNCHANGED <<commandLine, scanVars, pc, regions>>

NextDerived ==
    \/ Do_getEasterEggNameFromParam
    \/ Do_getGhostTypingSpeedFromParam
    \/ Do_convertParamsToNotepadStyle
    \/ Do_stripIgnoredParams

InitDerived ==
    /\ commandLine = ""
    /\ cmdLine = <<>>
    /\ i = 0
    /\ isBetweenFileNameQuotes = FALSE
    /\ isStringInArg = FALSE
    /\ isInWhiteSpace = TRUE
    /\ zArg = 0
    /\ shouldBeTerminated = FALSE
    /\ args = <<>>
    /\ paramVector \in DerivedVectors
    /\ pc = "params"
    /\ regions = <<>>
    /\ calls = <<>>

SpecDerived == InitDerived /\ [][NextDerived]_vars

-----------------------------------------------------------------------------
(* The whole flow: a command line is tokenized, then values are extracted *)

SettingsDirCmdLine == "-multiInst -settingsDir=\"C:\\my settings\\\" C:\\file.txt"
NotepadStyleCmdLine ==
    "-notepadStyleCmdline -z \"C:\\WINDOWS\\system32\\NOTEPAD.EXE\" C:\\my folder\\my file with whitespace.txt"
QuickPrintCmdLine == "/p report.txt"
LangCmdLine == "-lcpp\t-n12 \"my file.txt\""

Examples == {SettingsDirCmdLine, NotepadStyleCmdLine, QuickPrintCmdLine, LangCmdLine}

Init ==
    /\ commandLine \in Examples
    /\ InitScanState

Next == NextScan \/ NextParams

Spec == Init /\ [][Next]_vars

-----------------------------------------------------------------------------
(* Reference definitions for the properties *)

WS == {SPACE, TAB}

HasQuote(s) == \E k \in 1..Len(s) : SubSeq(s, k, k) = QUOTE

\* The least offset >= from at which string s has a character of the set,
\* Len(s) when there is none.
NextIn(s, from, set) ==
    LET at == {q \in from..(Len(s) - 1) : CharAt(s, q) \in set}
    IN  IF at = {} THEN Len(s) ELSE CHOOSE q \in at : \A r \in at : q <= r

NextQuote(s, from) == NextIn(s, from, {QUOTE})

\* The part of string s from offset from up to, not including, offset to.
Slice(s, from, to) == SubSeq(s, from + 1, to)

\* The elements of a finite set of integers in increasing order.
RECURSIVE Ascending(_)
Ascending(S) ==
    IF S = {} THEN <<>>
    ELSE LET m == CHOOSE x \in S : \A y \in S : x <= y
         IN  <<m>> \o Ascending(S \ {m})

\* Splitting on runs of space/tab: the maximal runs of other characters.
SplitWS(s) ==
    LET starts == {p \in 0..(Len(s) - 1) :
                       /\ CharAt(s, p) \notin WS
                       /\ p = 0 \/ CharAt(s, p - 1) \in WS}
        order == Ascending(starts)
    IN  [k \in 1..Len(order) |-> Slice(s, order[k], NextIn(s, order[k], WS))]

\* The token that was started at offset off is the last one and was captured
\* verbatim (the scan stopped on it).
Verbatim(k) == shouldBeTerminated /\ k = Len(args)

-----------------------------------------------------------------------------
(* Properties of parseCommandLine *)

\* C1: for every raw command line without a double quote, parseCommandLine
\* returns exactly the maximal runs of non-space/non-tab characters, in order,
\* also when a "-z" token is followed by one or several whitespace characters.
C1_NoQuoteSplitsOnWhiteSpace ==
    (pc = "params" /\ ~HasQuote(commandLine)) => paramVector = SplitWS(commandLine)

\* The shape C2 is about: the first "-z" token of s, at offset p, after a
\* prefix without quotes, followed by white space, one argument X (a word
\* without quotes, or a phrase closed by a quote), white space, and text that
\* starts at offset ZRestAt.
NextNotIn(s, from, set) ==
    LET at == {q \in from..(Len(s) - 1) : CharAt(s, q) \notin set}
    IN  IF at = {} THEN Len(s) ELSE CHOOSE q \in at : \A r \in at : q <= r
ZArgAt(s, p) == NextNotIn(s, p + 2, WS)
ZArgQuoted(s, p) == CharAt(s, ZArgAt(s, p)) = QUOTE
ZArgEnd(s, p) ==
    IF ZArgQuoted(s, p)
    THEN NextQuote(s, ZArgAt(s, p) + 1) + 1
    ELSE NextIn(s, ZArgAt(s, p), WS)
ZRestAt(s, p) == NextNotIn(s, ZArgEnd(s, p), WS)
ZPrefix(s, p) == SplitWS(Slice(s, 0, p))

ZShape(s, p) ==
    /\ p + 2 < Len(s)
    /\ Slice(s, p, p + 2) = "-z"
    /\ p = 0 \/ CharAt(s, p - 1) \in WS
    /\ ~HasQuote(Slice(s, 0, p))
    /\ \A k \in 1..Len(ZPrefix(s, p)) : ZPrefix(s, p)[k] # "-z"
    /\ CharAt(s, p + 2) \in WS
    /\ ZArgAt(s, p) < Len(s)
    /\ IF ZArgQuoted(s, p)
       THEN ZArgEnd(s, p) <= Len(s)
       ELSE ~HasQuote(Slice(s, ZArgAt(s, p), ZArgEnd(s, p)))
    /\ CharAt(s, ZArgEnd(s, p)) \in WS
    /\ ZRestAt(s, p) < Len(s)

ZArg(s, p) ==
    IF ZArgQuoted(s, p)
    THEN Slice(s, ZArgAt(s, p) + 1, ZArgEnd(s, p) - 1)
    ELSE Slice(s, ZArgAt(s, p), ZArgEnd(s, p))

\* C2: when a "-z" token is followed by one argument X (a word, or a phrase in
\* quotes) and then by further text beginning at Y, parseCommandLine yields X
\* as its own token and exactly one final token, the raw suffix starting at Y.
C2_ZArgThenRestVerbatim ==
    pc = "params" =>
        \A p \in 0..(commandLength - 1) :
            ZShape(commandLine, p) =>
                paramVector = ZPrefix(commandLine, p)
                                \o <<"-z", ZArg(commandLine, p),
                                     Slice(commandLine, ZRestAt(commandLine, p),
                                           commandLength)>>

\* C3 as stated: no token returned by parseCommandLine contains a double quote.
C3_NoQuoteInAnyToken ==
    pc = "params" => \A k \in 1..Len(paramVector) : ~HasQuote(paramVector[k])

\* C3 as amended: the quotes of a filename region are cut out of the buffer,
\* and a double quote is part of a token only where it opened or closed a
\* region directly after '=' (isStringInArg), or in the final token captured
\* verbatim after "-z".
C3_QuotesOnlyOfStringInArg ==
    pc = "params" =>
        /\ \A n \in 1..Len(regions) :
              regions[n].kind = "file" =>
                  /\ cmdLine[regions[n].open + 1] = NUL
                  /\ regions[n].close # -1 => cmdLine[regions[n].close + 1] = NUL
        /\ \A k \in 1..Len(paramVector) :
              \A j \in 0..(Len(paramVector[k]) - 1) :
                  (CharAt(paramVector[k], j) = QUOTE /\ ~Verbatim(k)) =>
                      \E n \in 1..Len(regions) :
                          /\ regions[n].kind = "arg"
                          /\ args[k] + j \in {regions[n].open, regions[n].close}

C3_Witness ==
    /\ pc = "params"
    /\ \E k \in 1..Len(paramVector) : HasQuote(paramVector[k]) /\ ~Verbatim(k)
    /\ \E n \in 1..Len(regions) : regions[n].kind = "file" /\ regions[n].close # -1

\* C5: a double quote met with no quoting context active and no '=' before it
\* opens a region whose characters, up to the matching closing quote or the end
\* of the input, are exactly one token, whatever spaces or tabs they contain;
\* neither quote is part of the token.
C5_FileNameRegionIsOneToken ==
    pc = "params" =>
        \A n \in 1..Len(regions) :
            regions[n].kind = "file" =>
                LET o == regions[n].open
                    c == NextQuote(commandLine, o + 1)
                IN  /\ \E k \in 1..Len(args) :
                          /\ args[k] = o + 1
                          /\ paramVector[k] = Slice(commandLine, o + 1, c)
                    /\ Cardinality({k \in 1..Len(args) : args[k] \in (o + 1)..c}) = 1

C5_Witness ==
    /\ pc = "params"
    /\ \E n \in 1..Len(regions) :
          /\ regions[n].kind = "file"
          /\ regions[n].close # -1
          /\ \E q \in (regions[n].open + 1)..(regions[n].close - 1) :
                CharAt(commandLine, q) \in WS
          /\ \E q \in (regions[n].open + 1)..(regions[n].close - 1) :
                CharAt(commandLine, q) \notin WS

\* C6: a double quote met directly after '=' with no quoting context active
\* opens a region in which nothing is cut and no token starts, up to and
\* including the matching closing quote; the token that contains the '='
\* holds the whole region exactly as in the raw input.
C6_StringInArgKeepsWhiteSpace ==
    pc = "params" =>
        \A n \in 1..Len(regions) :
            regions[n].kind = "arg" =>
                LET o == regions[n].open
                    c == NextQuote(commandLine, o + 1)
                    e == IF c < commandLength THEN c ELSE commandLength - 1
                IN  /\ CharAt(commandLine, o - 1) = "="
                    /\ \A q \in o..e : cmdLine[q + 1] = CharAt(commandLine, q)
                    /\ \A k \in 1..Len(args) : args[k] \notin o..e
                    /\ \A k \in 1..Len(args) :
                          (args[k] <= o - 1 /\ o - 1 < args[k] + Len(paramVector[k])) =>
                              /\ args[k] + Len(paramVector[k]) > e
                              /\ paramVector[k] =
                                    Slice(commandLine, args[k], args[k] + Len(paramVector[k]))

C6_Witness ==
    /\ pc = "params"
    /\ \E n \in 1..Len(regions) :
          /\ regions[n].kind = "arg"
          /\ regions[n].close # -1
          /\ \E q \in (regions[n].open + 1)..(regions[n].close - 1) :
                CharAt(commandLine, q) \in WS
          /\ \E k \in 1..Len(args) :
                /\ args[k] < regions[n].open
                /\ regions[n].close < args[k] + Len(paramVector[k])

\* C7: parseCommandLine terminates on every input; when a quote is left
\* unterminated, the token opened by it runs to the end of the input.
C7_TerminatesAndOpenQuoteRunsToEnd ==
    /\ <>(pc = "params")
    /\ [](pc = "parseCommandLine" => i <= commandLength)
    /\ []((pc = "params" /\ isBetweenFileNameQuotes) =>
            /\ Len(paramVector) > 0
            /\ args[Len(args)] = regions[Len(regions)].open + 1
            /\ paramVector[Len(paramVector)] =
                  Slice(commandLine, args[Len(args)], commandLength))

C7_Witness ==
    /\ pc = "params"
    /\ isBetweenFileNameQuotes
    /\ Len(paramVector[Len(paramVector)]) >= 2
    /\ \E q \in args[Len(args)]..(commandLength - 1) : CharAt(commandLine, q) \in WS

-----------------------------------------------------------------------------
(* Properties of the extraction functions *)

LastCall == calls[Len(calls)]

IsCall(c, op, arg) == c.op = op /\ c.arg = arg

StartsWith(t, prefix) == Len(t) >= Len(prefix) /\ SubSeq(t, 1, Len(prefix)) = prefix

\* Whether token t is one that call c looks for.
Wanted(c, t) ==
    IF c.op = "isInList" THEN t = c.arg
    ELSE IF c.op = "getParamValFromString" THEN StartsWith(t, c.arg)
    ELSE StartsWith(t, "-" \o c.arg)

Without(params, j) == SubSeq(params, 1, j - 1) \o SubSeq(params, j + 1, Len(params))

TokensOf(params) == {params[k] : k \in 1..Len(params)}

\* C4 as stated: the tokens of the -settingsDir example carry no quotes, and
\* the value extracted for "-settingsDir=" is the bare path.
SettingsDirBare == <<"-multiInst", "-settingsDir=C:\\my settings\\", "C:\\file.txt">>

C4_SettingsDirEndToEnd ==
    commandLine = SettingsDirCmdLine =>
        /\ (pc = "params" /\ calls = <<>>) => paramVector = SettingsDirBare
        /\ (/\ Len(calls) = 2
            /\ calls[1].before = SettingsDirBare
            /\ IsCall(calls[1], "isInList", "-multiInst") /\ calls[1].eraseArg
            /\ IsCall(calls[2], "getParamValFromString", "-settingsDir=")) =>
                /\ calls[1].found /\ Len(calls[1].after) = 2
                /\ calls[2].found /\ calls[2].value = "C:\\my settings\\"
                /\ paramVector = <<"C:\\file.txt">>

\* C4 as amended: the second token keeps the quotes of its value,
\* -settingsDir="C:\my settings\"; isInList("-multiInst") returns true and
\* leaves 2 tokens; getParamValFromString("-settingsDir=") returns the value
\* with its quotes, "C:\my settings\", and leaves the token C:\file.txt.
SettingsDirTokens ==
    <<"-multiInst", "-settingsDir=\"C:\\my settings\\\"", "C:\\file.txt">>

C4_SettingsDirKeepsQuotes ==
    commandLine = SettingsDirCmdLine =>
        /\ (pc = "params" /\ calls = <<>>) => paramVector = SettingsDirTokens
        /\ (/\ Len(calls) >= 1
            /\ calls[1].before = SettingsDirTokens
            /\ IsCall(calls[1], "isInList", "-multiInst") /\ calls[1].eraseArg) =>
                /\ calls[1].found
                /\ calls[1].after = <<SettingsDirTokens[2], SettingsDirTokens[3]>>
        /\ (/\ Len(calls) = 2
            /\ calls[1].before = SettingsDirTokens
            /\ IsCall(calls[1], "isInList", "-multiInst") /\ calls[1].eraseArg
            /\ IsCall(calls[2], "getParamValFromString", "-settingsDir=")) =>
                /\ calls[2].found
                /\ calls[2].value = "\"C:\\my settings\\\""
                /\ calls[2].after = <<"C:\\file.txt">>
                /\ paramVector = <<"C:\\file.txt">>

C4_Witness ==
    /\ commandLine = SettingsDirCmdLine
    /\ Len(calls) = 2
    /\ calls[1].before = SettingsDirTokens
    /\ IsCall(calls[1], "isInList", "-multiInst") /\ calls[1].eraseArg
    /\ IsCall(calls[2], "getParamValFromString", "-settingsDir=")
    /\ paramVector = <<"C:\\file.txt">>

\* C8: a successful isInList (erasing), getParamVal or getParamValFromString
\* removes exactly one token, the lowest-index one that matches; the others
\* stay in their order and the length decreases by 1.
C8_RemovesFirstMatchOnly ==
    (/\ calls # <<>>
     /\ LastCall.op \in {"isInList", "getParamVal", "getParamValFromString"}
     /\ LastCall.eraseArg
     /\ LastCall.found) =>
        \E j \in 1..Len(LastCall.before) :
            /\ Wanted(LastCall, LastCall.before[j])
            /\ \A k \in 1..(j - 1) : ~Wanted(LastCall, LastCall.before[k])
            /\ LastCall.after = Without(LastCall.before, j)
            /\ Len(LastCall.after) = Len(LastCall.before) - 1
            /\ paramVector = LastCall.after

C8_Witness ==
    /\ calls # <<>>
    /\ LastCall.op = "getParamVal"
    /\ LastCall.found
    /\ Len(LastCall.before) = 3
    /\ ~Wanted(LastCall, LastCall.before[1])
    /\ Wanted(LastCall, LastCall.before[2])
    /\ Wanted(LastCall, LastCall.before[3])
    /\ paramVector = <<LastCall.before[1], LastCall.before[3]>>

\* C9: when no token matches, isInList returns false, getParamVal and
\* getParamValFromString return false with an empty value, getNumberFromParam
\* sets isParamePresent to false, and the sequence is unchanged.
C9_NoMatchLeavesSequence ==
    (/\ calls # <<>>
     /\ LastCall.op \in {"isInList", "getParamVal", "getParamValFromString",
                         "getNumberFromParam"}
     /\ \A k \in 1..Len(LastCall.before) : ~Wanted(LastCall, LastCall.before[k])) =>
        /\ ~LastCall.found
        /\ LastCall.value = ""
        /\ LastCall.op = "getNumberFromParam" => LastCall.number = -1
        /\ LastCall.after = LastCall.before
        /\ paramVector = LastCall.before

C9_Witness ==
    /\ calls # <<>>
    /\ LastCall.op = "getNumberFromParam"
    /\ Len(LastCall.before) = 3
    /\ "-lcpp" \in TokensOf(LastCall.before)
    /\ ~LastCall.found
    /\ paramVector = LastCall.before

\* C10 as stated: on every sequence that contains -lcpp, getParamVal('l')
\* returns cpp and removes that token, and a second getParamVal('l') on the
\* result reports absent.
C10_LcppThenAbsent ==
    /\ (/\ calls # <<>>
        /\ IsCall(LastCall, "getParamVal", "l")
        /\ "-lcpp" \in TokensOf(LastCall.before)) =>
            /\ LastCall.found
            /\ LastCall.value = "cpp"
            /\ \E j \in 1..Len(LastCall.before) :
                  /\ LastCall.before[j] = "-lcpp"
                  /\ LastCall.after = Without(LastCall.before, j)
    /\ (/\ Len(calls) = 2
        /\ IsCall(calls[1], "getParamVal", "l")
        /\ "-lcpp" \in TokensOf(calls[1].before)
        /\ IsCall(calls[2], "getParamVal", "l")) =>
            ~calls[2].found

\* The tokens of params that getParamVal('l') matches.
LTokens(params) == {k \in 1..Len(params) : StartsWith(params[k], "-l")}

\* C10 as amended: on every sequence in which -lcpp is the first token that
\* begins with -l, getParamVal('l') returns cpp and removes that token; a
\* second getParamVal('l') on the result reports absent when no other token
\* begins with -l.
C10_FirstLcppThenAbsent ==
    /\ (/\ calls # <<>>
        /\ IsCall(LastCall, "getParamVal", "l")
        /\ \E j \in LTokens(LastCall.before) :
              /\ LastCall.before[j] = "-lcpp"
              /\ \A k \in LTokens(LastCall.before) : j <= k) =>
            /\ LastCall.found
            /\ LastCall.value = "cpp"
            /\ \E j \in LTokens(LastCall.before) :
                  /\ \A k \in LTokens(LastCall.before) : j <= k
                  /\ LastCall.after = Without(LastCall.before, j)
    /\ (/\ Len(calls) = 2
        /\ IsCall(calls[1], "getParamVal", "l")
        /\ Cardinality(LTokens(calls[1].before)) = 1
        /\ "-lcpp" \in TokensOf(calls[1].before)
        /\ IsCall(calls[2], "getParamVal", "l")) =>
            /\ calls[2].before = calls[1].after
            /\ ~calls[2].found
            /\ calls[2].value = ""
            /\ calls[2].after = calls[2].before

C10_Witness ==
    /\ Len(calls) = 2
    /\ IsCall(calls[1], "getParamVal", "l")
    /\ Len(calls[1].before) = 3
    /\ calls[1].before[2] = "-lcpp"
    /\ calls[1].value = "cpp"
    /\ IsCall(calls[2], "getParamVal", "l")
    /\ ~calls[2].found
    /\ Len(paramVector) = 2

-----------------------------------------------------------------------------
(* The Notepad replacement flow: parseCommandLine, then stripIgnoredParams *)

IgnoredCommandLines == ZCommandLines \cup {NotepadStyleCmdLine}

InitIgnored ==
    /\ commandLine \in IgnoredCommandLines
    /\ InitScanState

NextIgnored == NextScan \/ Do_stripIgnoredParams

SpecIgnored == InitIgnored /\ [][NextIgnored]_vars

-----------------------------------------------------------------------------
(* Properties of the derived functions and the rewriting passes *)

\* The positions of params whose token begins with prefix.
WithPrefix(params, prefix) == {k \in 1..Len(params) : StartsWith(params[k], prefix)}

Least(S) == CHOOSE k \in S : \A j \in S : k <= j

\* C11: getGhostTypingSpeedFromParam never ends in an exception: it returns a
\* speed in {1,2,3} when the first token with prefix -qSpeed carries such a
\* value, and otherwise -1, also when the value after the prefix is empty,
\* non-numeric, zero, negative or greater than 3.
C11_GhostTypingSpeedNeverThrows ==
    /\ pc # "exception"
    /\ (calls # <<>> /\ LastCall.op = "getGhostTypingSpeedFromParam") =>
          LET hits == WithPrefix(LastCall.before, "-qSpeed")
              first == LastCall.before[Least(hits)]
          IN  LastCall.number =
                  IF hits # {} /\ first \in {"-qSpeed1", "-qSpeed2", "-qSpeed3"}
                  THEN DigitVal(CharAt(first, 7))
                  ELSE -1

\* C12: getEasterEggNameFromParam picks the token by the priority of its
\* prefix, -qn= over -qt= over -qf=, not by position; type becomes 0, 1 or 2
\* for the form taken, and only that token is removed.
C12_EasterEggByPrefixPriority ==
    (calls # <<>> /\ LastCall.op = "getEasterEggNameFromParam") =>
        LET qn == WithPrefix(LastCall.before, "-qn=")
            qt == WithPrefix(LastCall.before, "-qt=")
            qf == WithPrefix(LastCall.before, "-qf=")
            won == IF qn # {} THEN qn ELSE IF qt # {} THEN qt ELSE qf
        IN  IF won = {}
            THEN /\ LastCall.after = LastCall.before
                 /\ LastCall.value = ""
                 /\ Digits[LastCall.number + 1] = LastCall.arg
            ELSE /\ LastCall.number = (IF qn # {} THEN 0 ELSE IF qt # {} THEN 1 ELSE 2)
                 /\ LastCall.after = Without(LastCall.before, Least(won))
                 /\ paramVector = LastCall.after

C12_Witness ==
    /\ calls # <<>>
    /\ LastCall.op = "getEasterEggNameFromParam"
    /\ Len(LastCall.before) = 3
    /\ StartsWith(LastCall.before[1], "-qf=")
    /\ StartsWith(LastCall.before[2], "-qt=")
    /\ StartsWith(LastCall.before[3], "-qn=")
    /\ LastCall.number = 0
    /\ paramVector = <<LastCall.before[1], LastCall.before[2]>>

C14_ConvertOnlyFirstParameter ==
    (calls # <<>> /\ LastCall.op = "convertParamsToNotepadStyle") =>
        \A k \in 2..Len(LastCall.before) : LastCall.after[k] = LastCall.before[k]

\* The roles of the positions of params in the left-to-right pass of C15: a
\* head is a -z that is not the token after a head, a tail is the token after
\* a head.
RECURSIVE IgnoredHead(_, _)
IgnoredHead(params, k) ==
    /\ params[k] = "-z"
    /\ ~(k >= 2 /\ IgnoredHead(params, k - 1))

IgnoredTail(params, k) == k >= 2 /\ IgnoredHead(params, k - 1)

Kept(params) == {k \in 1..Len(params) : ~IgnoredHead(params, k) /\ ~IgnoredTail(params, k)}

\* The tokens of params at the positions of S, in order.
RECURSIVE Restrict(_, _)
Restrict(params, S) ==
    IF params = <<>> THEN <<>>
    ELSE LET n == Len(params)
             front == Restrict(SubSeq(params, 1, n - 1), S)
         IN  IF n \in S THEN Append(front, params[n]) ELSE front

\* C15: stripIgnoredParams removes each -z together with the single token
\* after it, even when that token is itself -z, and goes on after the removed
\* pair; every other token is kept in order and the result holds no -z.
C15_StripRemovesZPairs ==
    (calls # <<>> /\ LastCall.op = "stripIgnoredParams") =>
        /\ LastCall.after = Restrict(LastCall.before, Kept(LastCall.before))
        /\ paramVector = LastCall.after
        /\ \A k \in 1..Len(paramVector) : paramVector[k] # "-z"

C15_Witness ==
    /\ calls # <<>>
    /\ LastCall.op = "stripIgnoredParams"
    /\ LastCall.before = <<"-z", "-z", "a">>
    /\ paramVector = <<"a">>

-----------------------------------------------------------------------------
(* Properties of the scan, step by step *)

InContext == isBetweenFileNameQuotes \/ isStringInArg

\* A step of the loop that looks at the character at offset i.
ScanStep == pc = "parseCommandLine" /\ i' = i + 1

\* C16: at every step of the scan the two quoting contexts are mutually
\* exclusive, and while either is true no token starts and no space or tab is
\* replaced by a terminator.
C16_ContextsExclusiveNoBoundaryInside ==
    /\ [](~(isBetweenFileNameQuotes /\ isStringInArg))
    /\ [][(ScanStep /\ InContext) =>
            /\ args' = args
            /\ cmdLine[i + 1] \in {TAB, SPACE} => cmdLine' = cmdLine]_vars

\* Both kinds of region were scanned, and a space inside one of them is still a
\* space of the buffer.
C16_Witness ==
    /\ pc = "params"
    /\ \E a, f \in 1..Len(regions) :
          /\ regions[a].kind = "arg"
          /\ regions[f].kind = "file"
          /\ \E r \in {a, f} :
                \E k \in (regions[r].open + 1)..(commandLength - 1) :
                    /\ regions[r].close = -1 \/ k < regions[r].close
                    /\ CharAt(commandLine, k) = SPACE
                    /\ cmdLine[k + 1] = SPACE

\* C17: at every step of the scan, for every input, the counter zArg stays
\* within {0,1,2}.
C17_ZArgWithinRange == zArg \in 0..2

HasSpace(s) == \E k \in 1..Len(s) : SubSeq(s, k, k) = SPACE

\* The step that enters verbatim capture: a token starts on a character that
\* is neither a quote nor white space while zArg is 2.
EntersVerbatim ==
    /\ ScanStep
    /\ cmdLine[i + 1] \notin {QUOTE, TAB, SPACE}
    /\ ~InContext
    /\ isInWhiteSpace
    /\ zArg = 2

\* C18: once verbatim capture is entered the scan stops: the token started by
\* that step is the last token of the result and equals the raw input from its
\* start to the end of the string, and no later character starts a token or is
\* replaced.
C18_VerbatimCaptureEndsScan ==
    /\ [][EntersVerbatim => shouldBeTerminated' /\ args' = Append(args, i)]_vars
    /\ [][shouldBeTerminated => i' = i /\ cmdLine' = cmdLine /\ args' = args]_vars
    /\ [](shouldBeTerminated /\ pc = "params" =>
            /\ Len(paramVector) = Len(args)
            /\ paramVector[Len(paramVector)]
                  = Slice(commandLine, args[Len(args)], commandLength))

C18_Witness ==
    /\ pc = "params"
    /\ shouldBeTerminated
    /\ HasSpace(paramVector[Len(paramVector)])
    /\ HasQuote(paramVector[Len(paramVector)])
    /\ args[Len(args)] + 3 = commandLength

\* The shape C19 is about: flags without -z and without quotes, one -z at
\* offset p, a single separator, X in quotes, white space, and a rest that
\* starts on a character that is neither a quote nor white space.
ZQuotedShape(s, p) ==
    /\ ZShape(s, p)
    /\ ZArgAt(s, p) = p + 3
    /\ ZArgQuoted(s, p)
    /\ ZArg(s, p) # "-z"
    /\ CharAt(s, ZRestAt(s, p)) # QUOTE
    /\ Slice(s, ZRestAt(s, p), Len(s)) # "-z"

\* C19: for a raw command line of the form <flags> -z "<X>" <rest>,
\* parseCommandLine followed by stripIgnoredParams yields the tokens of <flags>
\* followed by exactly one token equal to <rest> verbatim; neither -z nor X
\* remains and <rest> is not split at its white space.
C19_ParseThenStripKeepsRest ==
    (pc = "params" /\ calls # <<>> /\ LastCall.op = "stripIgnoredParams") =>
        /\ \A p \in 0..(commandLength - 1) :
              ZQuotedShape(commandLine, p) =>
                  paramVector = ZPrefix(commandLine, p)
                                  \o <<Slice(commandLine, ZRestAt(commandLine, p),
                                             commandLength)>>
        /\ commandLine = NotepadStyleCmdLine =>
              paramVector = <<"-notepadStyleCmdline",
                              "C:\\my folder\\my file with whitespace.txt">>

C19_Witness ==
    /\ pc = "params"
    /\ calls # <<>>
    /\ LastCall.op = "stripIgnoredParams"
    /\ \E p \in 1..(commandLength - 1) :
          /\ ZQuotedShape(commandLine, p)
          /\ HasSpace(ZArg(commandLine, p))
          /\ HasSpace(Slice(commandLine, ZRestAt(commandLine, p), commandLength))
          /\ Len(LastCall.before) = 4
          /\ Len(paramVector) = 2

\* The regions of quoted filenames, and those of strings after '='.
FileRegions == {r \in 1..Len(regions) : regions[r].kind = "file"}
ArgRegions == {r \in 1..Len(regions) : regions[r].kind = "arg"}

\* Offset q of the raw command line lies in the k-th token of the result.
InToken(q, k) == args[k] <= q /\ q < args[k] + Len(paramVector[k])

\* The text that directly follows the closing quote of a filename, up to the
\* next space, tab or quote, belongs to no token.
TextAfterClosingQuoteDropped ==
    \A r \in FileRegions :
        LET c == regions[r].close
        IN  c # -1 =>
              \A q \in (c + 1)..(NextIn(commandLine, c + 1, WS \cup {QUOTE}) - 1) :
                  \A k \in 1..Len(args) : ~InToken(q, k)

\* A token in progress at the opening quote of a filename ends there, and the
\* quoted text is the next token.
TokenBeforeOpeningQuoteKept ==
    \A r \in FileRegions : \A k \in 1..Len(args) :
        LET o == regions[r].open
        IN  (args[k] < o /\ \A q \in args[k]..(o - 1) : cmdLine[q + 1] # NUL) =>
              /\ paramVector[k] = Slice(commandLine, args[k], o)
              /\ k < Len(args)
              /\ args[k + 1] = o + 1

QuoteExamplesResult ==
    /\ commandLine = "\"abc\"def ghi" => paramVector = <<"abc", "ghi">>
    /\ commandLine = "abc\"def\"" => paramVector = <<"abc", "def">>

\* C20 as stated: every double quote the scan looks at ends the current token
\* (it is replaced by a terminator); text directly after a closing filename
\* quote belongs to no token, text directly before an opening quote is kept as
\* its own token.
C20_EveryQuoteEndsToken ==
    pc = "params" =>
        /\ \A q \in 0..(i - 1) :
              CharAt(commandLine, q) = QUOTE => cmdLine[q + 1] = NUL
        /\ TextAfterClosingQuoteDropped
        /\ TokenBeforeOpeningQuoteKept
        /\ QuoteExamplesResult

\* C20, amended: a double quote that opens or closes a quoted filename ends the
\* current token, while the quotes of a string after '=' end no token and stay
\* in the buffer; text directly after a closing filename quote belongs to no
\* token, and a token in progress at an opening filename quote is kept as its
\* own token.
C20_FileNameQuoteEndsToken ==
    pc = "params" =>
        /\ \A r \in FileRegions :
              /\ cmdLine[regions[r].open + 1] = NUL
              /\ regions[r].close # -1 => cmdLine[regions[r].close + 1] = NUL
        /\ \A r \in ArgRegions :
              /\ cmdLine[regions[r].open + 1] = QUOTE
              /\ regions[r].close # -1 => cmdLine[regions[r].close + 1] = QUOTE
        /\ TextAfterClosingQuoteDropped
        /\ TokenBeforeOpeningQuoteKept
        /\ QuoteExamplesResult

\* A token ended at the opening quote of a filename, and text directly after
\* the closing quote was dropped.
C20_Witness ==
    /\ pc = "params"
    /\ \E r \in FileRegions :
          /\ regions[r].open > 0
          /\ regions[r].open - 1 \in {args[k] : k \in 1..Len(args)}
          /\ regions[r].close # -1
          /\ regions[r].close + 1 < commandLength
          /\ CharAt(commandLine, regions[r].close + 1) \notin WS \cup {QUOTE}
    /\ Len(paramVector) = 2

====
